---- MODULE Spec2Model ----
(***************************************************************************)
(* The relational schema of loyalty_prototype/models.py as a state machine. *)
(* The state is the content of the nine tables; a step is one INSERT or one *)
(* single-column UPDATE against a store that enforces the constraints the   *)
(* schema declares (NOT NULL, UNIQUE, FOREIGN KEY).  A row's primary key is *)
(* its position in its table: generate_uuid() never repeats an id.  No      *)
(* DELETE is modelled: the schema declares no cascade rule.                 *)
(* Columns that carry no constraint and no default that a property reads    *)
(* (email, attributes, payload, lines, created_at, ...) are left out, and   *)
(* the NOT NULL string columns are always given a value.                    *)
(***************************************************************************)
EXTENDS Integers, Sequences, FiniteSets, TLC

VARIABLES tenants, users, products, campaigns, offers, vouchers,
          push_notifications, redemptions, transactions, last

tables == <<tenants, users, products, campaigns, offers, vouchers,
            push_notifications, redemptions, transactions>>
vars == <<tables, last>>

----------------------------------------------------------------------------
(* Bounds of the exploration *)

\* Spec: rows in the whole store
MaxRows == 4
\* SpecCatalog: rows in tenants and products together
CatalogRows == 5
\* SpecReference: rows in tenants, users, offers and vouchers together
ReferenceRows == 4
\* SpecNotify: rows in tenants, campaigns and push_notifications together
NotifyRows == 2
\* SpecIssue: rows per table
IssueTenants == 2
IssueUsers == 1
IssueOffers == 1
IssueVouchers == 2
\* SpecRedeem: rows per table
RedeemTenants == 1
RedeemUsers == 1
RedeemOffers == 1
RedeemVouchers == 1
RedeemRedemptions == 1
RedeemTransactions == 1
\* SpecSettle: rows per table
SettleTenants == 1
SettleOffers == 1
SettleRedemptions == 1
SettleTransactions == 2
\* largest timestamp written to scheduled_at / sent_at
MaxTime == 2

----------------------------------------------------------------------------
(* Values *)

\* SQL NULL in an id or timestamp column
NULL == 0
\* a column left out of an INSERT, so that its default applies
Omitted == "omitted"

Names == {"Acme", "Globex"}
Skus == {"X1", "X2"}
Codes == {"ACME-001", "ACME-002"}
Times == 1..MaxTime

CampaignStatus == {"draft", "active", "paused", "ended"}
VoucherState == {"issued", "redeemed", "expired", "void"}
RedemptionStatus == {"approved", "denied", "settled"}

\* outcomes of a write
OK == "ok"
NotNullViolation == "NotNullViolation"
UniquenessViolation == "UniquenessViolation"
ReferentialIntegrityViolation == "ReferentialIntegrityViolation"

\* the values a caller can put in a foreign-key column: NULL, the id of every
\* row of the referenced table, and one id that identifies no row
Refs(table) == 0..(Len(table) + 1)

RowCount == Len(tenants) + Len(users) + Len(products) + Len(campaigns)
            + Len(offers) + Len(vouchers) + Len(push_notifications)
            + Len(redemptions) + Len(transactions)

----------------------------------------------------------------------------
(* Column constraints and the write they guard *)

\* nullable=False
NotNull(v) == v # NULL

\* ForeignKey("<table>.id"): a non-NULL value identifies a row of the table
References(v, table) == v = NULL \/ v \in DOMAIN table

\* the kinds of constraint a row violates
Violations(notnull, unique, fk) ==
    (IF notnull THEN {} ELSE {NotNullViolation})
    \cup (IF unique THEN {} ELSE {UniquenessViolation})
    \cup (IF fk THEN {} ELSE {ReferentialIntegrityViolation})

\* what the store reports for a write: success when no constraint is violated,
\* otherwise the violation of one of the violated constraints (which one is the
\* engine's choice)
Outcomes(viol) == IF viol = {} THEN {OK} ELSE viol

\* the table after row r is written at position id (id = Len + 1 inserts)
Written(table, id, r) ==
    IF id \in DOMAIN table THEN [table EXCEPT ![id] = r] ELSE Append(table, r)

\* a store that keeps the row of a statement it has rejected
CommitUnchecked(table, id, r, res) == Written(table, id, r)

\* the table after a write with outcome res: a failed statement writes nothing
Commit(table, id, r, res) == IF res = OK THEN Written(table, id, r) ELSE table

\* the possible outcomes of writing r at id: the table afterwards and the result
Write(table, id, r, viol) ==
    {[rows |-> Commit(table, id, r, res), result |-> res] : res \in Outcomes(viol)}

\* a column's default applies when the INSERT leaves the column out
Default(v, d) == IF v = Omitted THEN d ELSE v

\* the last write: the statement, the column it set ("*" for a whole row), the
\* value the column held before, and the outcome
Inserted(op, res) == [op |-> op, col |-> "*", old |-> NULL, result |-> res]
Updated(op, f, old, res) == [op |-> op, col |-> f, old |-> old, result |-> res]

----------------------------------------------------------------------------
(* Tenant *)

TenantColumns == {"name"}

\* the values a caller can write to column f
TenantValues(f) ==
    CASE f = "name" -> Names

\* the rows a caller can submit
TenantRows ==
    [name : Names]

\* a name column without unique=True
TenantNameNotUnique(id, r) == TRUE

\* name = Column(String, nullable=False, unique=True)
TenantNameUnique(id, r) ==
    \A j \in DOMAIN tenants \ {id} : tenants[j].name # r.name

TenantViolations(id, r) ==
    Violations(TRUE,
               TenantNameUnique(id, r),
               TRUE)

\* INSERT INTO tenants: the possible outcomes
InsertTenant(row) ==
    LET r == row
    IN Write(tenants, Len(tenants) + 1, r, TenantViolations(NULL, r))

\* UPDATE tenants SET f = v WHERE id = id: the possible outcomes
SetTenant(id, f, v) ==
    LET r == [tenants[id] EXCEPT ![f] = v]
    IN Write(tenants, id, r, TenantViolations(id, r))

CreateTenant(row) ==
    \E o \in InsertTenant(row) :
        /\ tenants' = o.rows
        /\ last' = Inserted("CreateTenant", o.result)
        /\ UNCHANGED <<users, products, campaigns, offers, vouchers,
                       push_notifications, redemptions, transactions>>

UpdateTenant(id, f, v) ==
    \E o \in SetTenant(id, f, v) :
        /\ tenants' = o.rows
        /\ last' = Updated("UpdateTenant", f, tenants[id][f], o.result)
        /\ UNCHANGED <<users, products, campaigns, offers, vouchers,
                       push_notifications, redemptions, transactions>>

\* the writes to tenants, with at most cap rows in the table and total in the store
TenantOps(cap, total) ==
    \/ /\ Len(tenants) < cap /\ RowCount < total
       /\ \E row \in TenantRows : CreateTenant(row)
    \/ \E id \in DOMAIN tenants : \E f \in TenantColumns : \E v \in TenantValues(f) :
           UpdateTenant(id, f, v)

----------------------------------------------------------------------------
(* User *)

UserColumns == {"tenant_id"}

\* the values a caller can write to column f
UserValues(f) ==
    CASE f = "tenant_id" -> Refs(tenants)

\* the rows a caller can submit
UserRows ==
    [tenant_id : Refs(tenants)]

UserNotNull(r) == NotNull(r.tenant_id)

\* a tenant_id column without its ForeignKey
UserReferencesNone(r) == TRUE

UserReferences(r) ==
    /\ References(r.tenant_id, tenants)

UserViolations(id, r) ==
    Violations(UserNotNull(r),
               TRUE,
               UserReferences(r))

\* INSERT INTO users: the possible outcomes
InsertUser(row) ==
    LET r == row
    IN Write(users, Len(users) + 1, r, UserViolations(NULL, r))

\* UPDATE users SET f = v WHERE id = id: the possible outcomes
SetUser(id, f, v) ==
    LET r == [users[id] EXCEPT ![f] = v]
    IN Write(users, id, r, UserViolations(id, r))

CreateUser(row) ==
    \E o \in InsertUser(row) :
        /\ users' = o.rows
        /\ last' = Inserted("CreateUser", o.result)
        /\ UNCHANGED <<tenants, products, campaigns, offers, vouchers,
                       push_notifications, redemptions, transactions>>

UpdateUser(id, f, v) ==
    \E o \in SetUser(id, f, v) :
        /\ users' = o.rows
        /\ last' = Updated("UpdateUser", f, users[id][f], o.result)
        /\ UNCHANGED <<tenants, products, campaigns, offers, vouchers,
                       push_notifications, redemptions, transactions>>

\* the writes to users, with at most cap rows in the table and total in the store
UserOps(cap, total) ==
    \/ /\ Len(users) < cap /\ RowCount < total
       /\ \E row \in UserRows : CreateUser(row)
    \/ \E id \in DOMAIN users : \E f \in UserColumns : \E v \in UserValues(f) :
           UpdateUser(id, f, v)

----------------------------------------------------------------------------
(* Product *)

ProductColumns == {"tenant_id", "sku"}

\* the values a caller can write to column f
ProductValues(f) ==
    CASE f = "tenant_id" -> Refs(tenants)
      [] f = "sku" -> Skus

\* the rows a caller can submit
ProductRows ==
    [tenant_id : Refs(tenants), sku : Skus]

ProductNotNull(r) == NotNull(r.tenant_id)

\* a sku unique across all tenants
ProductSkuUnique(id, r) ==
    \A j \in DOMAIN products \ {id} : products[j].sku # r.sku

\* UniqueConstraint("tenant_id", "sku", name="uix_tenant_sku")
ProductTenantSkuUnique(id, r) ==
    \A j \in DOMAIN products \ {id} :
        ~(products[j].tenant_id = r.tenant_id /\ products[j].sku = r.sku)

ProductReferences(r) ==
    /\ References(r.tenant_id, tenants)

ProductViolations(id, r) ==
    Violations(ProductNotNull(r),
               ProductTenantSkuUnique(id, r),
               ProductReferences(r))

\* INSERT INTO products: the possible outcomes
InsertProduct(row) ==
    LET r == row
    IN Write(products, Len(products) + 1, r, ProductViolations(NULL, r))

\* UPDATE products SET f = v WHERE id = id: the possible outcomes
SetProduct(id, f, v) ==
    LET r == [products[id] EXCEPT ![f] = v]
    IN Write(products, id, r, ProductViolations(id, r))

CreateProduct(row) ==
    \E o \in InsertProduct(row) :
        /\ products' = o.rows
        /\ last' = Inserted("CreateProduct", o.result)
        /\ UNCHANGED <<tenants, users, campaigns, offers, vouchers,
                       push_notifications, redemptions, transactions>>

UpdateProduct(id, f, v) ==
    \E o \in SetProduct(id, f, v) :
        /\ products' = o.rows
        /\ last' = Updated("UpdateProduct", f, products[id][f], o.result)
        /\ UNCHANGED <<tenants, users, campaigns, offers, vouchers,
                       push_notifications, redemptions, transactions>>

\* the writes to products, with at most cap rows in the table and total in the store
ProductOps(cap, total) ==
    \/ /\ Len(products) < cap /\ RowCount < total
       /\ \E row \in ProductRows : CreateProduct(row)
    \/ \E id \in DOMAIN products : \E f \in ProductColumns : \E v \in ProductValues(f) :
           UpdateProduct(id, f, v)

----------------------------------------------------------------------------
(* Campaign *)

CampaignColumns == {"tenant_id", "status"}

\* the values a caller can write to column f
CampaignValues(f) ==
    CASE f = "tenant_id" -> Refs(tenants)
      [] f = "status" -> CampaignStatus

\* the rows a caller can submit
CampaignRows ==
    [tenant_id : Refs(tenants), status : {Omitted, "active"}]

\* status = Column(String, default="draft")
CampaignDefaults(row) == [row EXCEPT !.status = Default(@, "draft")]

CampaignNotNull(r) == NotNull(r.tenant_id)

CampaignReferences(r) ==
    /\ References(r.tenant_id, tenants)

CampaignViolations(id, r) ==
    Violations(CampaignNotNull(r),
               TRUE,
               CampaignReferences(r))

\* INSERT INTO campaigns: the possible outcomes
InsertCampaign(row) ==
    LET r == CampaignDefaults(row)
    IN Write(campaigns, Len(campaigns) + 1, r, CampaignViolations(NULL, r))

\* UPDATE campaigns SET f = v WHERE id = id: the possible outcomes
SetCampaign(id, f, v) ==
    LET r == [campaigns[id] EXCEPT ![f] = v]
    IN Write(campaigns, id, r, CampaignViolations(id, r))

CreateCampaign(row) ==
    \E o \in InsertCampaign(row) :
        /\ campaigns' = o.rows
        /\ last' = Inserted("CreateCampaign", o.result)
        /\ UNCHANGED <<tenants, users, products, offers, vouchers,
                       push_notifications, redemptions, transactions>>

UpdateCampaign(id, f, v) ==
    \E o \in SetCampaign(id, f, v) :
        /\ campaigns' = o.rows
        /\ last' = Updated("UpdateCampaign", f, campaigns[id][f], o.result)
        /\ UNCHANGED <<tenants, users, products, offers, vouchers,
                       push_notifications, redemptions, transactions>>

\* the writes to campaigns, with at most cap rows in the table and total in the store
CampaignOps(cap, total) ==
    \/ /\ Len(campaigns) < cap /\ RowCount < total
       /\ \E row \in CampaignRows : CreateCampaign(row)
    \/ \E id \in DOMAIN campaigns : \E f \in CampaignColumns : \E v \in CampaignValues(f) :
           UpdateCampaign(id, f, v)

----------------------------------------------------------------------------
(* Offer *)

OfferColumns == {"tenant_id", "campaign_id"}

\* the values a caller can write to column f
OfferValues(f) ==
    CASE f = "tenant_id" -> Refs(tenants)
      [] f = "campaign_id" -> Refs(campaigns)

\* the rows a caller can submit
OfferRows ==
    [tenant_id : Refs(tenants), campaign_id : Refs(campaigns)]

OfferNotNull(r) == NotNull(r.tenant_id)

OfferReferences(r) ==
    /\ References(r.tenant_id, tenants)
    /\ References(r.campaign_id, campaigns)

OfferViolations(id, r) ==
    Violations(OfferNotNull(r),
               TRUE,
               OfferReferences(r))

\* INSERT INTO offers: the possible outcomes
InsertOffer(row) ==
    LET r == row
    IN Write(offers, Len(offers) + 1, r, OfferViolations(NULL, r))

\* UPDATE offers SET f = v WHERE id = id: the possible outcomes
SetOffer(id, f, v) ==
    LET r == [offers[id] EXCEPT ![f] = v]
    IN Write(offers, id, r, OfferViolations(id, r))

CreateOffer(row) ==
    \E o \in InsertOffer(row) :
        /\ offers' = o.rows
        /\ last' = Inserted("CreateOffer", o.result)
        /\ UNCHANGED <<tenants, users, products, campaigns, vouchers,
                       push_notifications, redemptions, transactions>>

UpdateOffer(id, f, v) ==
    \E o \in SetOffer(id, f, v) :
        /\ offers' = o.rows
        /\ last' = Updated("UpdateOffer", f, offers[id][f], o.result)
        /\ UNCHANGED <<tenants, users, products, campaigns, vouchers,
                       push_notifications, redemptions, transactions>>

\* the writes to offers, with at most cap rows in the table and total in the store
OfferOps(cap, total) ==
    \/ /\ Len(offers) < cap /\ RowCount < total
       /\ \E row \in OfferRows : CreateOffer(row)
    \/ \E id \in DOMAIN offers : \E f \in OfferColumns : \E v \in OfferValues(f) :
           UpdateOffer(id, f, v)

----------------------------------------------------------------------------
(* Voucher *)

VoucherColumns == {"tenant_id", "offer_id", "user_id", "code", "state", "redemption_id"}

\* the values a caller can write to column f
VoucherValues(f) ==
    CASE f = "tenant_id" -> Refs(tenants)
      [] f = "offer_id" -> Refs(offers)
      [] f = "user_id" -> Refs(users)
      [] f = "code" -> Codes
      [] f = "state" -> VoucherState
      [] f = "redemption_id" -> Refs(redemptions)

\* the rows a caller can submit
VoucherRows ==
    [tenant_id : Refs(tenants), offer_id : Refs(offers), user_id : Refs(users), code : Codes, state : {Omitted, "issued"}, redemption_id : Refs(redemptions)]

\* state = Column(String, default="issued")
VoucherDefaults(row) == [row EXCEPT !.state = Default(@, "issued")]

VoucherNotNull(r) == NotNull(r.tenant_id) /\ NotNull(r.offer_id) /\ NotNull(r.user_id)

\* a code unique within its tenant only
VoucherCodeUniquePerTenant(id, r) ==
    \A j \in DOMAIN vouchers \ {id} :
        ~(vouchers[j].tenant_id = r.tenant_id /\ vouchers[j].code = r.code)

\* code = Column(String, unique=True, nullable=False)
VoucherCodeUnique(id, r) ==
    \A j \in DOMAIN vouchers \ {id} : vouchers[j].code # r.code

\* a user_id column without its ForeignKey
VoucherReferencesNoUser(r) ==
    /\ References(r.tenant_id, tenants)
    /\ References(r.offer_id, offers)
    /\ References(r.redemption_id, redemptions)

\* a redemption_id column without its ForeignKey
VoucherReferencesNoRedemption(r) ==
    /\ References(r.tenant_id, tenants)
    /\ References(r.offer_id, offers)
    /\ References(r.user_id, users)

VoucherReferences(r) ==
    /\ References(r.tenant_id, tenants)
    /\ References(r.offer_id, offers)
    /\ References(r.user_id, users)
    /\ References(r.redemption_id, redemptions)

VoucherViolations(id, r) ==
    Violations(VoucherNotNull(r),
               VoucherCodeUnique(id, r),
               VoucherReferences(r))

\* INSERT INTO vouchers: the possible outcomes
InsertVoucher(row) ==
    LET r == VoucherDefaults(row)
    IN Write(vouchers, Len(vouchers) + 1, r, VoucherViolations(NULL, r))

\* a state column that refuses to leave "redeemed"
SetVoucherGuarded(id, f, v) ==
    LET r == [vouchers[id] EXCEPT ![f] = v]
    IN IF f = "state" /\ vouchers[id].state = "redeemed" /\ v # "redeemed"
       THEN {[rows |-> vouchers, result |-> "CheckViolation"]}
       ELSE Write(vouchers, id, r, VoucherViolations(id, r))

\* UPDATE vouchers SET f = v WHERE id = id: the possible outcomes
SetVoucher(id, f, v) ==
    LET r == [vouchers[id] EXCEPT ![f] = v]
    IN Write(vouchers, id, r, VoucherViolations(id, r))

CreateVoucher(row) ==
    \E o \in InsertVoucher(row) :
        /\ vouchers' = o.rows
        /\ last' = Inserted("CreateVoucher", o.result)
        /\ UNCHANGED <<tenants, users, products, campaigns, offers,
                       push_notifications, redemptions, transactions>>

UpdateVoucher(id, f, v) ==
    \E o \in SetVoucher(id, f, v) :
        /\ vouchers' = o.rows
        /\ last' = Updated("UpdateVoucher", f, vouchers[id][f], o.result)
        /\ UNCHANGED <<tenants, users, products, campaigns, offers,
                       push_notifications, redemptions, transactions>>

\* the writes to vouchers, with at most cap rows in the table and total in the store
VoucherOps(cap, total) ==
    \/ /\ Len(vouchers) < cap /\ RowCount < total
       /\ \E row \in VoucherRows : CreateVoucher(row)
    \/ \E id \in DOMAIN vouchers : \E f \in VoucherColumns : \E v \in VoucherValues(f) :
           UpdateVoucher(id, f, v)

----------------------------------------------------------------------------
(* PushNotification *)

PushNotificationColumns == {"tenant_id", "campaign_id", "scheduled_at", "sent_at"}

\* the values a caller can write to column f
PushNotificationValues(f) ==
    CASE f = "tenant_id" -> Refs(tenants)
      [] f = "campaign_id" -> Refs(campaigns)
      [] f = "scheduled_at" -> {NULL} \cup Times
      [] f = "sent_at" -> {NULL} \cup Times

\* the rows a caller can submit
PushNotificationRows ==
    [tenant_id : Refs(tenants), campaign_id : Refs(campaigns), scheduled_at : {NULL} \cup Times, sent_at : {NULL} \cup Times]

PushNotificationNotNull(r) == NotNull(r.tenant_id)

PushNotificationReferences(r) ==
    /\ References(r.tenant_id, tenants)
    /\ References(r.campaign_id, campaigns)

PushNotificationViolations(id, r) ==
    Violations(PushNotificationNotNull(r),
               TRUE,
               PushNotificationReferences(r))

\* INSERT INTO push_notifications: the possible outcomes
InsertPushNotification(row) ==
    LET r == row
    IN Write(push_notifications, Len(push_notifications) + 1, r, PushNotificationViolations(NULL, r))

\* a sent_at column that can be set only on a scheduled notification, and not
\* before its scheduled time
SetPushNotificationScheduledFirst(id, f, v) ==
    LET r == [push_notifications[id] EXCEPT ![f] = v]
    IN IF r.sent_at # NULL /\ (r.scheduled_at = NULL \/ r.sent_at < r.scheduled_at)
       THEN {[rows |-> push_notifications, result |-> "CheckViolation"]}
       ELSE Write(push_notifications, id, r, PushNotificationViolations(id, r))

\* UPDATE push_notifications SET f = v WHERE id = id: the possible outcomes
SetPushNotification(id, f, v) ==
    LET r == [push_notifications[id] EXCEPT ![f] = v]
    IN Write(push_notifications, id, r, PushNotificationViolations(id, r))

CreatePushNotification(row) ==
    \E o \in InsertPushNotification(row) :
        /\ push_notifications' = o.rows
        /\ last' = Inserted("CreatePushNotification", o.result)
        /\ UNCHANGED <<tenants, users, products, campaigns, offers,
                       vouchers, redemptions, transactions>>

UpdatePushNotification(id, f, v) ==
    \E o \in SetPushNotification(id, f, v) :
        /\ push_notifications' = o.rows
        /\ last' = Updated("UpdatePushNotification", f, push_notifications[id][f], o.result)
        /\ UNCHANGED <<tenants, users, products, campaigns, offers,
                       vouchers, redemptions, transactions>>

\* the writes to push_notifications, with at most cap rows in the table and total in the store
PushNotificationOps(cap, total) ==
    \/ /\ Len(push_notifications) < cap /\ RowCount < total
       /\ \E row \in PushNotificationRows : CreatePushNotification(row)
    \/ \E id \in DOMAIN push_notifications : \E f \in PushNotificationColumns : \E v \in PushNotificationValues(f) :
           UpdatePushNotification(id, f, v)

----------------------------------------------------------------------------
(* Redemption *)

RedemptionColumns == {"tenant_id", "offer_id", "user_id", "voucher_id", "status"}

\* the values a caller can write to column f
RedemptionValues(f) ==
    CASE f = "tenant_id" -> Refs(tenants)
      [] f = "offer_id" -> Refs(offers)
      [] f = "user_id" -> Refs(users)
      [] f = "voucher_id" -> Refs(vouchers)
      [] f = "status" -> RedemptionStatus

\* the rows a caller can submit
RedemptionRows ==
    [tenant_id : Refs(tenants), offer_id : Refs(offers), user_id : Refs(users), voucher_id : Refs(vouchers), status : {"approved", "denied"}]

RedemptionNotNull(r) == NotNull(r.tenant_id) /\ NotNull(r.offer_id)

RedemptionReferences(r) ==
    /\ References(r.tenant_id, tenants)
    /\ References(r.offer_id, offers)
    /\ References(r.user_id, users)
    /\ References(r.voucher_id, vouchers)

RedemptionViolations(id, r) ==
    Violations(RedemptionNotNull(r),
               TRUE,
               RedemptionReferences(r))

\* INSERT INTO redemptions: the possible outcomes
InsertRedemption(row) ==
    LET r == row
    IN Write(redemptions, Len(redemptions) + 1, r, RedemptionViolations(NULL, r))

\* UPDATE redemptions SET f = v WHERE id = id: the possible outcomes
SetRedemption(id, f, v) ==
    LET r == [redemptions[id] EXCEPT ![f] = v]
    IN Write(redemptions, id, r, RedemptionViolations(id, r))

CreateRedemption(row) ==
    \E o \in InsertRedemption(row) :
        /\ redemptions' = o.rows
        /\ last' = Inserted("CreateRedemption", o.result)
        /\ UNCHANGED <<tenants, users, products, campaigns, offers,
                       vouchers, push_notifications, transactions>>

UpdateRedemption(id, f, v) ==
    \E o \in SetRedemption(id, f, v) :
        /\ redemptions' = o.rows
        /\ last' = Updated("UpdateRedemption", f, redemptions[id][f], o.result)
        /\ UNCHANGED <<tenants, users, products, campaigns, offers,
                       vouchers, push_notifications, transactions>>

\* the writes to redemptions, with at most cap rows in the table and total in the store
RedemptionOps(cap, total) ==
    \/ /\ Len(redemptions) < cap /\ RowCount < total
       /\ \E row \in RedemptionRows : CreateRedemption(row)
    \/ \E id \in DOMAIN redemptions : \E f \in RedemptionColumns : \E v \in RedemptionValues(f) :
           UpdateRedemption(id, f, v)

----------------------------------------------------------------------------
(* Transaction *)

TransactionColumns == {"tenant_id", "user_id", "redemption_id"}

\* the values a caller can write to column f
TransactionValues(f) ==
    CASE f = "tenant_id" -> Refs(tenants)
      [] f = "user_id" -> Refs(users)
      [] f = "redemption_id" -> Refs(redemptions)

\* the rows a caller can submit
TransactionRows ==
    [tenant_id : Refs(tenants), user_id : Refs(users), redemption_id : Refs(redemptions)]

TransactionNotNull(r) == NotNull(r.tenant_id)

TransactionReferences(r) ==
    /\ References(r.tenant_id, tenants)
    /\ References(r.user_id, users)
    /\ References(r.redemption_id, redemptions)

TransactionViolations(id, r) ==
    Violations(TransactionNotNull(r),
               TRUE,
               TransactionReferences(r))

\* INSERT INTO transactions: the possible outcomes
InsertTransaction(row) ==
    LET r == row
    IN Write(transactions, Len(transactions) + 1, r, TransactionViolations(NULL, r))

\* UPDATE transactions SET f = v WHERE id = id: the possible outcomes
SetTransaction(id, f, v) ==
    LET r == [transactions[id] EXCEPT ![f] = v]
    IN Write(transactions, id, r, TransactionViolations(id, r))

CreateTransaction(row) ==
    \E o \in InsertTransaction(row) :
        /\ transactions' = o.rows
        /\ last' = Inserted("CreateTransaction", o.result)
        /\ UNCHANGED <<tenants, users, products, campaigns, offers,
                       vouchers, push_notifications, redemptions>>

UpdateTransaction(id, f, v) ==
    \E o \in SetTransaction(id, f, v) :
        /\ transactions' = o.rows
        /\ last' = Updated("UpdateTransaction", f, transactions[id][f], o.result)
        /\ UNCHANGED <<tenants, users, products, campaigns, offers,
                       vouchers, push_notifications, redemptions>>

\* the writes to transactions, with at most cap rows in the table and total in the store
TransactionOps(cap, total) ==
    \/ /\ Len(transactions) < cap /\ RowCount < total
       /\ \E row \in TransactionRows : CreateTransaction(row)
    \/ \E id \in DOMAIN transactions : \E f \in TransactionColumns : \E v \in TransactionValues(f) :
           UpdateTransaction(id, f, v)

----------------------------------------------------------------------------
(* The store *)

Init ==
    /\ tenants = <<>>
    /\ users = <<>>
    /\ products = <<>>
    /\ campaigns = <<>>
    /\ offers = <<>>
    /\ vouchers = <<>>
    /\ push_notifications = <<>>
    /\ redemptions = <<>>
    /\ transactions = <<>>
    /\ last = Inserted("none", OK)

\* every write to every table
Next ==
    \/ TenantOps(MaxRows, MaxRows)
    \/ UserOps(MaxRows, MaxRows)
    \/ ProductOps(MaxRows, MaxRows)
    \/ CampaignOps(MaxRows, MaxRows)
    \/ OfferOps(MaxRows, MaxRows)
    \/ VoucherOps(MaxRows, MaxRows)
    \/ PushNotificationOps(MaxRows, MaxRows)
    \/ RedemptionOps(MaxRows, MaxRows)
    \/ TransactionOps(MaxRows, MaxRows)

Spec == Init /\ [][Next]_vars

\* the catalogue: the writes to tenants and products
NextCatalog ==
    \/ TenantOps(CatalogRows, CatalogRows)
    \/ ProductOps(CatalogRows, CatalogRows)

SpecCatalog == Init /\ [][NextCatalog]_vars

\* references of a voucher: the writes to tenants, users, offers and vouchers
NextReference ==
    \/ TenantOps(ReferenceRows, ReferenceRows)
    \/ UserOps(ReferenceRows, ReferenceRows)
    \/ OfferOps(ReferenceRows, ReferenceRows)
    \/ VoucherOps(ReferenceRows, ReferenceRows)

SpecReference == Init /\ [][NextReference]_vars

\* notifications: the writes to tenants, campaigns and push_notifications
NextNotify ==
    \/ TenantOps(NotifyRows, NotifyRows)
    \/ CampaignOps(NotifyRows, NotifyRows)
    \/ PushNotificationOps(NotifyRows, NotifyRows)

SpecNotify == Init /\ [][NextNotify]_vars

IssueRows == IssueTenants + IssueUsers + IssueOffers + IssueVouchers

\* issuing vouchers: the writes to tenants, users, offers and vouchers
NextIssue ==
    \/ TenantOps(IssueTenants, IssueRows)
    \/ UserOps(IssueUsers, IssueRows)
    \/ OfferOps(IssueOffers, IssueRows)
    \/ VoucherOps(IssueVouchers, IssueRows)

SpecIssue == Init /\ [][NextIssue]_vars

RedeemRows == RedeemTenants + RedeemUsers + RedeemOffers + RedeemVouchers
              + RedeemRedemptions + RedeemTransactions

\* redeeming a voucher: the writes to the six tables of the redemption scenario
NextRedeem ==
    \/ TenantOps(RedeemTenants, RedeemRows)
    \/ UserOps(RedeemUsers, RedeemRows)
    \/ OfferOps(RedeemOffers, RedeemRows)
    \/ VoucherOps(RedeemVouchers, RedeemRows)
    \/ RedemptionOps(RedeemRedemptions, RedeemRows)
    \/ TransactionOps(RedeemTransactions, RedeemRows)

SpecRedeem == Init /\ [][NextRedeem]_vars

SettleRows == SettleTenants + SettleOffers + SettleRedemptions + SettleTransactions

\* settling a redemption: the writes to tenants, offers, redemptions and
\* transactions
NextSettle ==
    \/ TenantOps(SettleTenants, SettleRows)
    \/ OfferOps(SettleOffers, SettleRows)
    \/ RedemptionOps(SettleRedemptions, SettleRows)
    \/ TransactionOps(SettleTransactions, SettleRows)

SpecSettle == Init /\ [][NextSettle]_vars

----------------------------------------------------------------------------
(* Properties *)

\* the row an INSERT added to a table
Added(rows) == rows[Len(rows)]

\* C1: no two Voucher rows share a code, in the same tenant or across tenants,
\* and an INSERT of a voucher whose code is in use fails and adds no row.
VoucherCodeGloballyUnique ==
    /\ \A i, j \in DOMAIN vouchers :
           i # j => vouchers[i].code # vouchers[j].code
    /\ \A row \in VoucherRows :
           (\E j \in DOMAIN vouchers : vouchers[j].code = row.code)
               => \A o \in InsertVoucher(row) :
                      o.result # OK /\ o.rows = vouchers

\* a second voucher was refused for its code while two tenants exist
VoucherCodeRefused ==
    /\ Len(tenants) = 2
    /\ Len(vouchers) = 1
    /\ last.op = "CreateVoucher"
    /\ last.result = UniquenessViolation

\* C2: no two Tenant rows share a name, and an INSERT of a tenant whose name
\* is in use fails with UniquenessViolation and adds no row.
TenantNameIsUnique ==
    /\ \A i, j \in DOMAIN tenants : i # j => tenants[i].name # tenants[j].name
    /\ \A row \in TenantRows :
           (\E j \in DOMAIN tenants : tenants[j].name = row.name)
               => InsertTenant(row)
                      = {[rows |-> tenants, result |-> UniquenessViolation]}

\* a second tenant named like the first was refused
TenantNameRefused ==
    /\ Len(tenants) = 1
    /\ last.op = "CreateTenant"
    /\ last.result = UniquenessViolation

\* a product of the same tenant with the same sku
SamePair(row) ==
    \E j \in DOMAIN products :
        products[j].tenant_id = row.tenant_id /\ products[j].sku = row.sku

\* C3: no two Product rows share both tenant_id and sku; a second INSERT of a
\* (tenant_id, sku) pair fails, and an INSERT of a sku under another, existing
\* tenant succeeds.
ProductTenantSkuIsUnique ==
    /\ \A i, j \in DOMAIN products :
           i # j => ~(/\ products[i].tenant_id = products[j].tenant_id
                      /\ products[i].sku = products[j].sku)
    /\ \A row \in ProductRows :
           /\ SamePair(row)
                  => \A o \in InsertProduct(row) :
                         o.result # OK /\ o.rows = products
           /\ (row.tenant_id \in DOMAIN tenants /\ ~SamePair(row))
                  => InsertProduct(row)
                         = {[rows |-> Append(products, row), result |-> OK]}

\* two tenants hold a product of the same sku, the second just inserted
SkuReusedByOtherTenant ==
    /\ Len(products) = 2
    /\ products[1].sku = products[2].sku
    /\ products[1].tenant_id # products[2].tenant_id
    /\ last.op = "CreateProduct"
    /\ last.result = OK

\* a voucher row whose offer_id or user_id names a row that does not exist
DanglingVoucher(row) ==
    \/ row.offer_id # NULL /\ row.offer_id \notin DOMAIN offers
    \/ row.user_id # NULL /\ row.user_id \notin DOMAIN users

\* the NOT NULL columns of a voucher row are all given
VoucherComplete(row) ==
    row.tenant_id # NULL /\ row.offer_id # NULL /\ row.user_id # NULL

\* C4: an INSERT of a voucher whose offer_id or user_id identifies no row
\* fails with ReferentialIntegrityViolation and adds no row (stated for rows
\* that give every NOT NULL column).
DanglingVoucherFailsWithReferentialIntegrity ==
    \A row \in VoucherRows :
        (VoucherComplete(row) /\ DanglingVoucher(row))
            => InsertVoucher(row)
                   = {[rows |-> vouchers,
                       result |-> ReferentialIntegrityViolation]}

\* C4 (amended): an INSERT of a voucher whose offer_id or user_id identifies no
\* row fails and adds no row; the failure is ReferentialIntegrityViolation when
\* the row violates no NOT NULL and no uniqueness constraint.
DanglingVoucherFails ==
    \A row \in VoucherRows :
        DanglingVoucher(row)
            => \A o \in InsertVoucher(row) :
                   /\ o.result # OK
                   /\ o.rows = vouchers
                   /\ (/\ VoucherComplete(row)
                       /\ \A j \in DOMAIN vouchers : vouchers[j].code # row.code)
                          => o.result = ReferentialIntegrityViolation

\* a voucher was refused for a foreign key while no offer exists
DanglingVoucherRefused ==
    /\ Len(tenants) >= 1
    /\ Len(users) >= 1
    /\ Len(offers) = 0
    /\ last.op = "CreateVoucher"
    /\ last.result = ReferentialIntegrityViolation

\* column f of every row of the table is NULL or the id of a row of target
Resolves(table, f, target) ==
    \A i \in DOMAIN table : table[i][f] = NULL \/ table[i][f] \in DOMAIN target

\* every foreign key of a voucher, a redemption and a transaction is NULL or
\* identifies a row
ForeignKeysResolve ==
    /\ Resolves(vouchers, "tenant_id", tenants)
    /\ Resolves(vouchers, "offer_id", offers)
    /\ Resolves(vouchers, "user_id", users)
    /\ Resolves(vouchers, "redemption_id", redemptions)
    /\ Resolves(redemptions, "tenant_id", tenants)
    /\ Resolves(redemptions, "offer_id", offers)
    /\ Resolves(redemptions, "user_id", users)
    /\ Resolves(redemptions, "voucher_id", vouchers)
    /\ Resolves(transactions, "tenant_id", tenants)
    /\ Resolves(transactions, "user_id", users)
    /\ Resolves(transactions, "redemption_id", redemptions)

\* no stored row violates a uniqueness or a foreign-key constraint
StoreIntegrity ==
    /\ \A i, j \in DOMAIN tenants : i # j => tenants[i].name # tenants[j].name
    /\ \A i, j \in DOMAIN products :
           i # j => ~(/\ products[i].tenant_id = products[j].tenant_id
                      /\ products[i].sku = products[j].sku)
    /\ \A i, j \in DOMAIN vouchers :
           i # j => vouchers[i].code # vouchers[j].code
    /\ ForeignKeysResolve
    /\ Resolves(users, "tenant_id", tenants)
    /\ Resolves(products, "tenant_id", tenants)
    /\ Resolves(campaigns, "tenant_id", tenants)
    /\ Resolves(offers, "tenant_id", tenants)
    /\ Resolves(offers, "campaign_id", campaigns)
    /\ Resolves(push_notifications, "tenant_id", tenants)
    /\ Resolves(push_notifications, "campaign_id", campaigns)

Referrers(table, f, id) == {i \in DOMAIN table : table[i][f] = id}

\* C6: each Redemption is linked to at most one Voucher and at most one
\* Transaction, and each Voucher to at most one Redemption.
RedemptionLinksAreOneToOne ==
    /\ \A r \in DOMAIN redemptions :
           /\ Cardinality(Referrers(vouchers, "redemption_id", r)) <= 1
           /\ Cardinality(Referrers(transactions, "redemption_id", r)) <= 1
    /\ \A v \in DOMAIN vouchers :
           Cardinality(Referrers(redemptions, "voucher_id", v)) <= 1

\* every row of the table has a tenant_id that identifies a tenant
OwnedByTenant(table) ==
    \A i \in DOMAIN table :
        table[i].tenant_id # NULL /\ table[i].tenant_id \in DOMAIN tenants

\* column f of every row of the table is NULL or names a row of the same tenant
SameTenant(table, f, target) ==
    \A i \in DOMAIN table :
        table[i][f] # NULL
            => /\ table[i][f] \in DOMAIN target
               /\ target[table[i][f]].tenant_id = table[i].tenant_id

EveryRowOwnedByTenant ==
    /\ OwnedByTenant(users)
    /\ OwnedByTenant(products)
    /\ OwnedByTenant(campaigns)
    /\ OwnedByTenant(offers)
    /\ OwnedByTenant(vouchers)
    /\ OwnedByTenant(push_notifications)
    /\ OwnedByTenant(redemptions)
    /\ OwnedByTenant(transactions)

ReferencesStayInTenant ==
    /\ SameTenant(offers, "campaign_id", campaigns)
    /\ SameTenant(push_notifications, "campaign_id", campaigns)
    /\ SameTenant(vouchers, "offer_id", offers)
    /\ SameTenant(vouchers, "user_id", users)
    /\ SameTenant(vouchers, "redemption_id", redemptions)
    /\ SameTenant(redemptions, "offer_id", offers)
    /\ SameTenant(redemptions, "user_id", users)
    /\ SameTenant(redemptions, "voucher_id", vouchers)
    /\ SameTenant(transactions, "user_id", users)
    /\ SameTenant(transactions, "redemption_id", redemptions)

\* C7: every row of a non-tenant table has a tenant_id that identifies a
\* tenant, and every row it references has that same tenant_id.
EveryEntityInOneTenant == EveryRowOwnedByTenant /\ ReferencesStayInTenant

\* C7 (amended): every row of a non-tenant table has a non-NULL tenant_id that
\* identifies a tenant; the rows it references need not have that tenant_id.
EveryRowHasOneTenant == EveryRowOwnedByTenant

\* a row references a row of another tenant
CrossTenantReference ==
    /\ Len(tenants) = 2
    /\ last.result = OK
    /\ EveryRowOwnedByTenant
    /\ ~ReferencesStayInTenant

\* a voucher that names a redemption is named by that redemption
LinksAgree ==
    \A v \in DOMAIN vouchers :
        vouchers[v].redemption_id # NULL
            => /\ vouchers[v].redemption_id \in DOMAIN redemptions
               /\ redemptions[vouchers[v].redemption_id].voucher_id = v

\* C8: every non-NULL foreign key of a voucher, a redemption and a transaction
\* identifies a row, and a voucher's redemption names that voucher.
LinkedDataConsistent == ForeignKeysResolve /\ LinksAgree

\* C8 (amended): every non-NULL foreign key of a voucher, a redemption and a
\* transaction identifies a row; the steps of the redemption scenario succeed
\* and link the rows in both directions: setting v.redemption_id to a
\* redemption that names v, and inserting a transaction for that redemption.
ScenarioLinksConsistently ==
    /\ ForeignKeysResolve
    /\ \A v \in DOMAIN vouchers : \A r \in DOMAIN redemptions :
           redemptions[r].voucher_id = v
               => SetVoucher(v, "redemption_id", r)
                      = {[rows |-> [vouchers EXCEPT ![v].redemption_id = r],
                          result |-> OK]}
    /\ \A row \in TransactionRows :
           (/\ row.tenant_id \in DOMAIN tenants
            /\ row.user_id \in DOMAIN users
            /\ row.redemption_id \in DOMAIN redemptions)
               => InsertTransaction(row)
                      = {[rows |-> Append(transactions, row), result |-> OK]}

\* the end of the redemption scenario: voucher, redemption and transaction
\* linked, the transaction inserted last
ScenarioDone ==
    /\ Len(vouchers) = 1 /\ Len(redemptions) = 1 /\ Len(transactions) = 1
    /\ vouchers[1].state = "redeemed"
    /\ vouchers[1].redemption_id = 1
    /\ redemptions[1].voucher_id = 1
    /\ redemptions[1].status = "approved"
    /\ transactions[1].redemption_id = 1
    /\ transactions[1].user_id = vouchers[1].user_id
    /\ last.op = "CreateTransaction"
    /\ last.result = OK

\* C9: a voucher inserted without a state is "issued" and a campaign inserted
\* without a status is "draft"; an UPDATE of Voucher.state, Campaign.status or
\* Redemption.status to any value of its enumeration succeeds from any value.
LifecycleUnguarded ==
    /\ \A row \in VoucherRows : \A o \in InsertVoucher(row) :
           (row.state = Omitted /\ o.result = OK)
               => Added(o.rows).state = "issued"
    /\ \A row \in CampaignRows : \A o \in InsertCampaign(row) :
           (row.status = Omitted /\ o.result = OK)
               => Added(o.rows).status = "draft"
    /\ \A id \in DOMAIN vouchers : \A s \in VoucherState :
           SetVoucher(id, "state", s)
               = {[rows |-> [vouchers EXCEPT ![id].state = s], result |-> OK]}
    /\ \A id \in DOMAIN campaigns : \A s \in CampaignStatus :
           SetCampaign(id, "status", s)
               = {[rows |-> [campaigns EXCEPT ![id].status = s], result |-> OK]}
    /\ \A id \in DOMAIN redemptions : \A s \in RedemptionStatus :
           SetRedemption(id, "status", s)
               = {[rows |-> [redemptions EXCEPT ![id].status = s],
                   result |-> OK]}

\* a redeemed voucher was moved back to "issued"
VoucherUnredeemed ==
    /\ last.op = "UpdateVoucher"
    /\ last.col = "state"
    /\ last.old = "redeemed"
    /\ last.result = OK
    /\ Len(vouchers) = 1
    /\ vouchers[1].state = "issued"

\* C10: a push notification with a sent_at has a scheduled_at, and its sent_at
\* is not earlier.
SentOnlyAfterScheduled ==
    \A p \in DOMAIN push_notifications :
        push_notifications[p].sent_at # NULL
            => /\ push_notifications[p].scheduled_at # NULL
               /\ push_notifications[p].sent_at
                      >= push_notifications[p].scheduled_at

\* C10 (amended): sent_at is stored as written, independently of scheduled_at:
\* an UPDATE of sent_at to NULL or to any time succeeds whatever scheduled_at
\* holds, and changes no other column.
SentAtStoredAsWritten ==
    \A p \in DOMAIN push_notifications : \A t \in {NULL} \cup Times :
        SetPushNotification(p, "sent_at", t)
            = {[rows |-> [push_notifications EXCEPT ![p].sent_at = t],
                result |-> OK]}

\* a notification that was never scheduled was marked sent
SentWithoutSchedule ==
    /\ last.op = "UpdatePushNotification"
    /\ last.col = "sent_at"
    /\ last.old = NULL
    /\ last.result = OK
    /\ Len(push_notifications) = 1
    /\ push_notifications[1].scheduled_at = NULL
    /\ push_notifications[1].sent_at # NULL
====
